---- MODULE Spec2Model ----
(***************************************************************************)
(* Polling-and-deduplication core of the Linear desktop-notification       *)
(* extension: LinearPollingService (polling-service.js), the parts of      *)
(* LinearAPIClient it calls (linear-client.js: isAuthenticated,            *)
(* getUpdates, the watermark) and the settings handlers of the extension.  *)
(*                                                                         *)
(* Execution model: GJS runs one callback at a time on the GLib main       *)
(* loop.  Each action below is one main-loop callback run to completion    *)
(* (a public method call, a timer firing, a settings "changed" emission,   *)
(* or the completion of an HTTP request together with the promise          *)
(* continuations it releases).  poll() is async: its synchronous prefix    *)
(* issues the request, its continuation runs when the response arrives.    *)
(***************************************************************************)
EXTENDS Integers, Sequences, FiniteSets, TLC

VARIABLES
    isPolling,          \* this.isPolling
    timeoutId,          \* this.timeoutId (0 stands for null)
    lastKnownUpdates,   \* this.lastKnownUpdates: a JS Set, kept in insertion order
    timers,             \* GLib timeout sources currently attached: [id, dur]
    inflight,           \* getUpdates() calls awaiting their response: the watermark each one read
    settings,           \* the Gio.Settings keys the core reads and writes
    now,                \* the local wall clock (hours)
    ev,                 \* what the last callback did (observation only)
    lastFetched,        \* ids returned to the last cycle that ran to its end (observation only)
    lifecycle,          \* the extension: "enabled", "disabled" (disable() ran), "destroyed" (destroy() ran)
    remote              \* the provider: the notifications it holds, the page it serves to the request in flight

vars == <<isPolling, timeoutId, lastKnownUpdates, timers, inflight, settings, now, ev, lastFetched,
          lifecycle, remote>>

\* what the callbacks of the polling core leave alone
others == <<lifecycle, remote>>

----------------------------------------------------------------------------
(* Bounds of the exploration *)

MaxInflight == 2        \* requests awaiting a response at one time
MaxTime == 2            \* last value of the local clock
MaxBatch == 2           \* records in one response (scheduler slice)
MaxBatchCycle == 3      \* records in one response (dispatch slice)
MaxPreload == 1         \* how far below the ceiling a preloaded SeenSet may start
MaxRecords == 2         \* notifications the provider creates at one moment

----------------------------------------------------------------------------
(* Program constants *)

MinInterval == 30       \* floor used by scheduleNextPoll and setPollingInterval
MaxInterval == 300      \* upper limit of setPollingInterval
PruneCeiling == 1000    \* cleanupOldUpdateIds: prune when size exceeds this
PruneKeep == 500        \* cleanupOldUpdateIds: entries kept by a prune
OneHour == 1            \* getLastUpdateTime: first-run fallback window

NULL == 0               \* null timeoutId, empty settings string

----------------------------------------------------------------------------
(* Small helpers *)

Max(a, b) == IF a >= b THEN a ELSE b

Range(s) == {s[i] : i \in 1..Len(s)}

SeqsUpTo(S, n) == UNION {[1..k -> S] : k \in 0..n}

----------------------------------------------------------------------------
(* linear-client.js: authentication state *)

\* LinearAPIClient.isAuthenticated, read at local time t
IsAuthenticated(st, t) ==
    IF st.authMethod = "token"
    THEN st.apiToken # ""
    ELSE IF st.oauthToken = "" \/ st.tokenExpiresAt = NULL
         THEN FALSE
         ELSE IF t >= st.tokenExpiresAt THEN FALSE ELSE TRUE

\* LinearOAuthHandler.isAuthenticated: the OAuth branch alone, whatever auth-method says
OAuthIsAuthenticated(st, t) ==
    IF st.oauthToken = "" \/ st.tokenExpiresAt = NULL
    THEN FALSE
    ELSE IF t >= st.tokenExpiresAt THEN FALSE ELSE TRUE

\* LinearAPIClient.getLastUpdateTime: the stored watermark, or one hour ago on first run
GetLastUpdateTime(st, t) ==
    IF st.lastUpdateTime # NULL THEN st.lastUpdateTime ELSE t - OneHour

----------------------------------------------------------------------------
(* polling-service.js: the scheduler, as functions of the service's fields *)
(* s = [isPolling, timeoutId, timers, inflight] plus three logs of the     *)
(* current callback: issued (getUpdates calls), armed (durations of the    *)
(* timers created), removed (ids passed to GLib.Source.remove), order (the  *)
(* three kinds of call in the order they were made), stale (a removal was   *)
(* asked for an id that no attached source holds).                         *)

Service ==
    [isPolling |-> isPolling, timeoutId |-> timeoutId, timers |-> timers,
     inflight |-> inflight, issued |-> 0, armed |-> <<>>, removed |-> <<>>,
     order |-> <<>>, stale |-> FALSE]

\* GLib hands out a source id that no attached source holds
FreshTimerId(s) ==
    LET used == {t.id : t \in s.timers} \cup {s.timeoutId}
    IN  CHOOSE k \in 1..(Cardinality(used) + 1) :
            k \notin used /\ \A j \in 1..(k - 1) : j \in used

\* faulty variant: the flag is cleared but the timer is left attached
StopKeepsTimer(s) == [s EXCEPT !.isPolling = FALSE]

\* faulty variant: the source is removed but the handle is not cleared
StopKeepsHandle(s) ==
    LET off == [s EXCEPT !.isPolling = FALSE]
    IN  IF off.timeoutId # NULL
        THEN [off EXCEPT !.timers = {t \in @ : t.id # off.timeoutId},
                         !.removed = Append(@, off.timeoutId),
                         !.order = Append(@, "remove"),
                         !.stale = @ \/ off.timeoutId \notin {t.id : t \in off.timers}]
        ELSE off

\* LinearPollingService.stop
StopOp(s) ==
    LET off == [s EXCEPT !.isPolling = FALSE]
    IN  IF off.timeoutId # NULL
        THEN [off EXCEPT !.timers = {t \in @ : t.id # off.timeoutId},
                         !.removed = Append(@, off.timeoutId),
                         !.order = Append(@, "remove"),
                         !.stale = @ \/ off.timeoutId \notin {t.id : t \in off.timers},
                         !.timeoutId = NULL]
        ELSE off

\* faulty variant: the authentication guard is missing
PollUnguarded(s, st, t) ==
    IF ~s.isPolling THEN s
    ELSE [s EXCEPT !.inflight = Append(@, GetLastUpdateTime(st, t)),
                   !.issued = @ + 1,
                   !.order = Append(@, "fetch")]

\* LinearPollingService.poll up to its first await: the guards, then getUpdates()
\* reads the watermark and sends the request
PollOp(s, st, t) ==
    IF ~s.isPolling THEN s
    ELSE IF ~IsAuthenticated(st, t) THEN s
    ELSE [s EXCEPT !.inflight = Append(@, GetLastUpdateTime(st, t)),
                   !.issued = @ + 1,
                   !.order = Append(@, "fetch")]

\* faulty variant: the interval is used as stored, without the floor
ScheduleNoFloor(s, st) ==
    IF ~s.isPolling THEN s
    ELSE LET id == FreshTimerId(s)
         IN  [s EXCEPT !.timeoutId = id,
                       !.timers = @ \cup {[id |-> id, dur |-> st.pollingInterval]},
                       !.armed = Append(@, st.pollingInterval),
                       !.order = Append(@, "arm")]

\* LinearPollingService.scheduleNextPoll
ScheduleOp(s, st) ==
    IF ~s.isPolling THEN s
    ELSE LET intervalSeconds == Max(MinInterval, st.pollingInterval)
             id == FreshTimerId(s)
         IN  [s EXCEPT !.timeoutId = id,
                       !.timers = @ \cup {[id |-> id, dur |-> intervalSeconds]},
                       !.armed = Append(@, intervalSeconds),
                       !.order = Append(@, "arm")]

\* faulty variant: the authentication check is missing
StartUngated(s, st, t) ==
    IF s.isPolling THEN s
    ELSE ScheduleOp(PollOp([s EXCEPT !.isPolling = TRUE], st, t), st)

\* faulty variant: the "already active" check is missing
StartUnguarded(s, st, t) ==
    IF ~IsAuthenticated(st, t) THEN s
    ELSE ScheduleOp(PollOp([s EXCEPT !.isPolling = TRUE], st, t), st)

\* faulty variant: the timer is armed before the immediate poll
StartArmsFirst(s, st, t) ==
    IF s.isPolling THEN s
    ELSE IF ~IsAuthenticated(st, t) THEN s
    ELSE PollOp(ScheduleOp([s EXCEPT !.isPolling = TRUE], st), st, t)

\* LinearPollingService.start
StartOp(s, st, t) ==
    IF s.isPolling THEN s
    ELSE IF ~IsAuthenticated(st, t) THEN s
    ELSE ScheduleOp(PollOp([s EXCEPT !.isPolling = TRUE], st, t), st)

\* LinearPollingService.restart
RestartOp(s, st, t) == StartOp(StopOp(s), st, t)

----------------------------------------------------------------------------
(* Error messages; a message is the tuple of its characters *)

UpperCase == <<"A","B","C","D","E","F","G","H","I","J","K","L","M",
               "N","O","P","Q","R","S","T","U","V","W","X","Y","Z">>
LowerCase == <<"a","b","c","d","e","f","g","h","i","j","k","l","m",
               "n","o","p","q","r","s","t","u","v","w","x","y","z">>

\* String.prototype.toLowerCase
ToLowerCase(str) ==
    [i \in 1..Len(str) |->
        IF \E k \in 1..26 : UpperCase[k] = str[i]
        THEN LowerCase[CHOOSE k \in 1..26 : UpperCase[k] = str[i]]
        ELSE str[i]]

\* String.prototype.includes
Includes(str, sub) ==
    \E i \in 0..(Len(str) - Len(sub)) : \A j \in 1..Len(sub) : str[i + j] = sub[j]

Unauthorized == <<"u","n","a","u","t","h","o","r","i","z","e","d">>
InvalidToken == <<"i","n","v","a","l","i","d"," ","t","o","k","e","n">>
Authentication == <<"a","u","t","h","e","n","t","i","c","a","t","i","o","n">>

\* faulty variant: the message is matched without lower-casing it
IsAuthenticationErrorCased(message) ==
    \/ Includes(message, Unauthorized)
    \/ Includes(message, InvalidToken)
    \/ Includes(message, Authentication)

\* LinearPollingService.isAuthenticationError; an error without a message reads as ''
IsAuthenticationError(message) ==
    LET errorMessage == ToLowerCase(message)
    IN  \/ Includes(errorMessage, Unauthorized)
        \/ Includes(errorMessage, InvalidToken)
        \/ Includes(errorMessage, Authentication)

\* The errors a cycle can meet
MsgHttp401 == <<"H","T","T","P"," ","4","0","1",":"," ","U","n","a","u","t","h","o","r","i","z","e","d">>
MsgInvalidToken == <<"I","n","v","a","l","i","d"," ","T","o","k","e","n">>
MsgAuthRequired == <<"A","U","T","H","E","N","T","I","C","A","T","I","O","N"," ","r","e","q","u","i","r","e","d">>
MsgHttp500 == <<"H","T","T","P"," ","5","0","0">>
MsgNotAuthenticated == <<"N","o","t"," ","a","u","t","h","e","n","t","i","c","a","t","e","d">>
MsgNone == <<>>

ErrorMessages ==
    {MsgHttp401, MsgInvalidToken, MsgAuthRequired, MsgHttp500, MsgNotAuthenticated, MsgNone}

----------------------------------------------------------------------------
(* linear-client.js: getUpdates after the response has arrived *)

\* the update built from one notification node (id namespaced, updatedAt = createdAt)
ToUpdate(node) == [id |-> <<"notification", node.id>>, t |-> node.createdAt]

\* one step of updates.sort((a, b) => b.updatedAt - a.updatedAt): Array.prototype.sort
\* is stable, so u goes after every element that is at least as recent
RECURSIVE InsertByRecent(_, _)
InsertByRecent(sorted, u) ==
    IF sorted = <<>> THEN <<u>>
    ELSE IF Head(sorted).t >= u.t
         THEN <<Head(sorted)>> \o InsertByRecent(Tail(sorted), u)
         ELSE <<u>> \o sorted

\* faulty variant: the sort is missing: the updates stay in response order
SortMissing(updates) == updates

RECURSIVE SortByRecent(_)
SortByRecent(updates) ==
    IF updates = <<>> THEN <<>>
    ELSE InsertByRecent(SortByRecent(SubSeq(updates, 1, Len(updates) - 1)),
                        updates[Len(updates)])

\* faulty variant: the records are not filtered by the watermark
GetUpdatesUnfiltered(nodes, lastUpdateTime) ==
    SortByRecent([i \in 1..Len(nodes) |-> ToUpdate(nodes[i])])

\* LinearAPIClient.getUpdates: filter by the watermark read at the start of the call,
\* convert, sort most recent first
GetUpdates(nodes, lastUpdateTime) ==
    LET newNotifications == SelectSeq(nodes, LAMBDA n : n.createdAt > lastUpdateTime)
        updates == [i \in 1..Len(newNotifications) |-> ToUpdate(newNotifications[i])]
    IN  SortByRecent(updates)

----------------------------------------------------------------------------
(* polling-service.js: poll() after getUpdates() has resolved *)

\* Set.prototype.has on an insertion-ordered set
SetHas(seen, id) == \E i \in 1..Len(seen) : seen[i] = id

\* Set.prototype.add on an insertion-ordered set
SetAdd(seen, id) == IF SetHas(seen, id) THEN seen ELSE Append(seen, id)

RECURSIVE AddAll(_, _)
AddAll(seen, ids) ==
    IF ids = <<>> THEN seen ELSE AddAll(SetAdd(seen, Head(ids)), Tail(ids))

\* faulty variant: slice(0, 500): the oldest ids are kept
KeepOldest(updateIds) == SubSeq(updateIds, 1, PruneKeep)

\* keepIds = updateIds.slice(-500)
KeepIds(updateIds) ==
    SubSeq(updateIds, Max(1, Len(updateIds) - PruneKeep + 1), Len(updateIds))

\* faulty variant: keeps the last 1000 ids, as the method's doc comment says
CleanupKeepThousand(seen) ==
    IF Len(seen) > PruneCeiling
    THEN SubSeq(seen, Max(1, Len(seen) - PruneCeiling + 1), Len(seen))
    ELSE seen

\* LinearPollingService.cleanupOldUpdateIds
CleanupOldUpdateIds(seen) ==
    IF Len(seen) > PruneCeiling THEN KeepIds(seen) ELSE seen

\* faulty variant: no filter against SeenSet
NewUpdatesUnfiltered(seen, updates) == updates

\* updates.filter(update => !this.lastKnownUpdates.has(update.id))
NewUpdates(seen, updates) == SelectSeq(updates, LAMBDA u : ~SetHas(seen, u.id))

\* faulty variant: the dispatched ids are not added to SeenSet
DispatchForgets(seen, updates, throwAt) ==
    LET newUpdates == NewUpdates(seen, updates)
        ids == [i \in 1..Len(newUpdates) |-> newUpdates[i].id]
    IN  [seen |-> seen, shown |-> ids, threw |-> FALSE, beforePrune |-> seen, pruned |-> FALSE]

\* The dispatch loop and the cleanup that follows it.  throwAt = 0: every
\* showNotification call returns; throwAt = k: the k-th call throws, which
\* leaves the loop before that id is added and before the cleanup.
Dispatch(seen, updates, throwAt) ==
    LET newUpdates == NewUpdates(seen, updates)
        ids == [i \in 1..Len(newUpdates) |-> newUpdates[i].id]
        threw == throwAt > 0
        shown == IF threw THEN SubSeq(ids, 1, throwAt) ELSE ids
        added == IF threw THEN SubSeq(ids, 1, throwAt - 1) ELSE ids
        after == AddAll(seen, added)
        cleaned == IF Len(newUpdates) > 0 /\ ~threw THEN CleanupOldUpdateIds(after) ELSE after
    IN  [seen |-> cleaned, shown |-> shown, threw |-> threw,
         beforePrune |-> after,
         pruned |-> Len(newUpdates) > 0 /\ ~threw /\ Len(after) > PruneCeiling]

----------------------------------------------------------------------------
(* What the last callback did *)

NoCycle == [valid |-> FALSE, ids |-> {}]

Ev(op, arg, s) ==
    [op |-> op, arg |-> arg, threw |-> FALSE,
     issued |-> s.issued, armed |-> s.armed, removed |-> s.removed, order |-> s.order,
     promise |-> "none", stale |-> s.stale,
     updates |-> <<>>, beforePrune |-> <<>>, shown |-> <<>>,
     pruned |-> FALSE, err |-> MsgNone]

\* the service's fields after a callback that ended in state s
Becomes(s) ==
    /\ Len(s.inflight) <= MaxInflight
    /\ isPolling' = s.isPolling
    /\ timeoutId' = s.timeoutId
    /\ timers' = s.timers
    /\ inflight' = s.inflight

RemoveAt(q, i) == SubSeq(q, 1, i - 1) \o SubSeq(q, i + 1, Len(q))

----------------------------------------------------------------------------
(* Public methods of LinearPollingService *)

Start ==
    LET s == StartOp(Service, settings, now)
    IN  /\ Becomes(s)
        /\ ev' = Ev("start", 0, s)
        /\ UNCHANGED <<lastKnownUpdates, settings, now, lastFetched>>

Stop ==
    LET s == StopOp(Service)
    IN  /\ Becomes(s)
        /\ ev' = Ev("stop", 0, s)
        /\ UNCHANGED <<lastKnownUpdates, settings, now, lastFetched>>

Restart ==
    LET s == RestartOp(Service, settings, now)
    IN  /\ Becomes(s)
        /\ ev' = Ev("restart", 0, s)
        /\ UNCHANGED <<lastKnownUpdates, settings, now, lastFetched>>

\* forcePoll: awaits poll(); here its synchronous prefix.  When a guard of poll()
\* returns early the promise resolves at once, else it follows the request.
ForcePoll ==
    LET s == PollOp(Service, settings, now)
    IN  /\ Becomes(s)
        /\ ev' = [Ev("forcePoll", 0, s) EXCEPT
                     !.promise = IF s.issued = 0 THEN "resolved" ELSE "pending"]
        /\ UNCHANGED <<lastKnownUpdates, settings, now, lastFetched>>

\* reset: forget every seen id
Reset ==
    /\ lastKnownUpdates' = <<>>
    /\ ev' = Ev("reset", 0, Service)
    /\ lastFetched' = NoCycle
    /\ UNCHANGED <<isPolling, timeoutId, timers, inflight, settings, now>>

\* faulty variant: the write is not followed by a restart
StoreWithoutRestart(seconds) ==
    [st |-> [settings EXCEPT !.pollingInterval = seconds], s |-> Service, threw |-> FALSE]

\* the settings write of setPollingInterval and the changed::polling-interval
\* handler it triggers (restart)
StoreInterval(seconds) ==
    LET st == [settings EXCEPT !.pollingInterval = seconds]
    IN  [st |-> st, s |-> RestartOp(Service, st, now), threw |-> FALSE]

\* faulty variant: an out-of-range value is clamped and stored
SetIntervalClamped(seconds) ==
    StoreInterval(IF seconds < MinInterval THEN MinInterval
                  ELSE IF seconds > MaxInterval THEN MaxInterval ELSE seconds)

\* setPollingInterval: a value outside [30, 300] throws before anything is written
SetIntervalOp(seconds) ==
    IF seconds < MinInterval \/ seconds > MaxInterval
    THEN [st |-> settings, s |-> Service, threw |-> TRUE]
    ELSE StoreInterval(seconds)

SetPollingInterval(seconds) ==
    LET r == SetIntervalOp(seconds)
    IN  /\ Becomes(r.s)
        /\ settings' = r.st
        /\ ev' = [Ev("setPollingInterval", seconds, r.s) EXCEPT !.threw = r.threw]
        /\ UNCHANGED <<lastKnownUpdates, now, lastFetched>>

----------------------------------------------------------------------------
(* The timer callback armed by scheduleNextPoll *)

\* faulty variant: the callback polls but does not schedule the next timer
TimerCallbackNoRearm(s, fired, st, t) ==
    [PollOp(s, st, t) EXCEPT !.timers = @ \ {fired}]

\* faulty variant: the callback returns SOURCE_CONTINUE and the fired source stays
TimerCallbackContinue(s, fired, st, t) == ScheduleOp(PollOp(s, st, t), st)

\* faulty variant: a firing without a valid credential ends the session
TimerCallbackEndsSession(s, fired, st, t) ==
    IF IsAuthenticated(st, t)
    THEN [ScheduleOp(PollOp(s, st, t), st) EXCEPT !.timers = @ \ {fired}]
    ELSE [s EXCEPT !.isPolling = FALSE, !.timeoutId = NULL, !.timers = @ \ {fired}]

\* poll(), scheduleNextPoll(), return SOURCE_REMOVE (GLib then detaches the fired source)
TimerCallback(s, fired, st, t) ==
    LET after == ScheduleOp(PollOp(s, st, t), st)
    IN  [after EXCEPT !.timers = @ \ {fired}]

TimerFire(fired) ==
    LET s == TimerCallback(Service, fired, settings, now)
    IN  /\ fired \in timers
        /\ Becomes(s)
        /\ ev' = Ev("timer", fired.dur, s)
        /\ UNCHANGED <<lastKnownUpdates, settings, now, lastFetched>>

----------------------------------------------------------------------------
(* Completion of a getUpdates() call that poll() is awaiting *)

\* faulty variant: every error stops the service
CatchStopsAlways(s, message) == StopOp(s)

\* faulty variant: an error that is not an authentication error is thrown again
PollRethrows(threw, message) ==
    IF threw /\ ~IsAuthenticationError(message) THEN "rejected" ELSE "resolved"

\* how the promise of poll() settles once its body has run: whatever is thrown
\* inside the try block is handled by the catch block, which ends normally
PollSettles(threw, message) == IF threw THEN "resolved" ELSE "resolved"

\* faulty variant: an authentication error clears the flag and leaves the timer
CatchClearsFlag(s, message) ==
    IF IsAuthenticationError(message) THEN [s EXCEPT !.isPolling = FALSE] ELSE s

\* the catch block of poll(): an authentication error stops the service
CatchOp(s, message) == IF IsAuthenticationError(message) THEN StopOp(s) ELSE s

\* The response arrived: getUpdates filters, advances the watermark, converts and
\* sorts; poll() resumes with the filter against SeenSet, the dispatch loop and
\* the cleanup.  An exception of showNotification lands in the catch block.
FetchResolve(i, nodes, throwAt, message) ==
    /\ i \in 1..Len(inflight)
    /\ LET updates == GetUpdates(nodes, inflight[i])
           r == Dispatch(lastKnownUpdates, updates, throwAt)
           s0 == [Service EXCEPT !.inflight = RemoveAt(@, i)]
           s == IF r.threw THEN CatchOp(s0, message) ELSE s0
       IN  /\ throwAt \in 0..Len(NewUpdates(lastKnownUpdates, updates))
           /\ Becomes(s)
           /\ lastKnownUpdates' = r.seen
           /\ settings' = [settings EXCEPT !.lastUpdateTime = now]
           /\ ev' = [Ev("pollResolve", 0, s) EXCEPT
                        !.threw = r.threw, !.updates = updates,
                        !.beforePrune = r.beforePrune,
                        !.shown = r.shown, !.pruned = r.pruned, !.err = message,
                        !.promise = PollSettles(r.threw, message)]
           /\ lastFetched' = IF r.threw THEN NoCycle
                             ELSE [valid |-> TRUE, ids |-> {u.id : u \in Range(updates)}]
           /\ UNCHANGED now

\* faulty variant: the watermark is advanced although the request failed
FetchRejectAdvances(i, message) ==
    /\ i \in 1..Len(inflight)
    /\ LET s == CatchOp([Service EXCEPT !.inflight = RemoveAt(@, i)], message)
       IN  /\ Becomes(s)
           /\ ev' = [Ev("pollReject", 0, s) EXCEPT !.threw = TRUE, !.err = message,
                        !.promise = PollSettles(TRUE, message)]
           /\ settings' = [settings EXCEPT !.lastUpdateTime = now]
           /\ UNCHANGED <<lastKnownUpdates, now, lastFetched>>

\* The request failed (transport error, non-OK status, GraphQL errors, a body that
\* does not parse or has no notifications.nodes): getUpdates rethrows, the
\* watermark stays, poll() lands in its catch block.
FetchReject(i, message) ==
    /\ i \in 1..Len(inflight)
    /\ LET s == CatchOp([Service EXCEPT !.inflight = RemoveAt(@, i)], message)
       IN  /\ Becomes(s)
           /\ ev' = [Ev("pollReject", 0, s) EXCEPT !.threw = TRUE, !.err = message,
                        !.promise = PollSettles(TRUE, message)]
           /\ UNCHANGED <<lastKnownUpdates, settings, now, lastFetched>>

----------------------------------------------------------------------------
(* Settings written from outside the service (preferences window, OAuth     *)
(* handler, dconf) and the "changed" handlers the code connects to them     *)

\* changed::polling-interval -> LinearPollingService: restart
WritePollingInterval(v) ==
    LET r == StoreInterval(v)
    IN  /\ Becomes(r.s)
        /\ settings' = r.st
        /\ ev' = Ev("writePollingInterval", v, r.s)
        /\ UNCHANGED <<lastKnownUpdates, now, lastFetched>>

\* faulty variant: the handler does nothing when the credential is not valid
ApiTokenChangedRestartOnly(s, st, t) ==
    IF IsAuthenticated(st, t) THEN RestartOp(s, st, t) ELSE s

\* changed::api-token -> extension: restart when authenticated, else stop
ApiTokenChanged(s, st, t) ==
    IF IsAuthenticated(st, t) THEN RestartOp(s, st, t) ELSE StopOp(s)

WriteApiToken(v) ==
    LET st == [settings EXCEPT !.apiToken = v]
        s == ApiTokenChanged(Service, st, now)
    IN  /\ Becomes(s)
        /\ settings' = st
        /\ ev' = Ev("writeApiToken", 0, s)
        /\ UNCHANGED <<lastKnownUpdates, now, lastFetched>>

\* changed::oauth-token -> LinearPollingService: restart; then the extension:
\* restart when the OAuth handler reports an unexpired token
OAuthTokenChanged(s, st, t) ==
    LET s1 == RestartOp(s, st, t)
    IN  IF OAuthIsAuthenticated(st, t) THEN RestartOp(s1, st, t) ELSE s1

WriteOAuthToken(v) ==
    LET st == [settings EXCEPT !.oauthToken = v]
        s == OAuthTokenChanged(Service, st, now)
    IN  /\ Becomes(s)
        /\ settings' = st
        /\ ev' = Ev("writeOAuthToken", 0, s)
        /\ UNCHANGED <<lastKnownUpdates, now, lastFetched>>

\* changed::auth-method -> extension: restart
WriteAuthMethod(m) ==
    LET st == [settings EXCEPT !.authMethod = m]
        s == RestartOp(Service, st, now)
    IN  /\ Becomes(s)
        /\ settings' = st
        /\ ev' = Ev("writeAuthMethod", 0, s)
        /\ UNCHANGED <<lastKnownUpdates, now, lastFetched>>

\* token-expires-at: nothing in the extension process listens to it
WriteTokenExpiresAt(v) ==
    /\ settings' = [settings EXCEPT !.tokenExpiresAt = v]
    /\ ev' = Ev("writeTokenExpiresAt", v, Service)
    /\ UNCHANGED <<isPolling, timeoutId, timers, inflight, lastKnownUpdates, now, lastFetched>>

\* the wall clock advances
Tick ==
    /\ now < MaxTime
    /\ now' = now + 1
    /\ ev' = Ev("tick", 0, Service)
    /\ UNCHANGED <<isPolling, timeoutId, timers, inflight, lastKnownUpdates, settings, lastFetched>>

----------------------------------------------------------------------------
(* Inputs *)

ApiTokens == {"", "lin_api_key"}
OAuthTokens == {"", "oauth_access"}
AuthMethods == {"token", "oauth"}
ExpiryTimes == {NULL, MaxTime + 1}
SetterArgs == {29, 30, 300, 301}            \* arguments tried on setPollingInterval
DirectIntervals == {10, 400}                \* values written straight into the settings
StoredIntervals == {s \in SetterArgs : s >= MinInterval /\ s <= MaxInterval} \cup DirectIntervals

NodeIds == {1, 2, 3}

\* scheduler slice: the provider holds one notification
NodesSched == {[id |-> 1, createdAt |-> MaxTime + 1]}
\* dispatch slice: notifications a, b, c created at 1, 2, 3
NodesCycle == {[id |-> i, createdAt |-> i] : i \in NodeIds}
\* prune slice: three notifications, all later than any watermark
NodesPrune == {[id |-> i, createdAt |-> MaxTime + 1] : i \in NodeIds}

\* what a showNotification call may throw
DisplayErrors == {MsgHttp500, MsgAuthRequired}

SettingsValues ==
    [pollingInterval : StoredIntervals, authMethod : AuthMethods, apiToken : ApiTokens,
     oauthToken : OAuthTokens, tokenExpiresAt : ExpiryTimes, lastUpdateTime : {NULL}]

\* the credential is an OAuth token
SettingsOAuth == {v \in SettingsValues : v.authMethod = "oauth" /\ v.apiToken = ""}

\* an API token is configured and the interval is the README's example
SettingsAuthenticated ==
    [pollingInterval |-> 60, authMethod |-> "token", apiToken |-> "lin_api_key",
     oauthToken |-> "", tokenExpiresAt |-> NULL, lastUpdateTime |-> NULL]

\* a response with any outcome of the display calls
Resolve(responses, displayErrors) ==
    \E i \in 1..Len(inflight), nodes \in responses :
        \E throwAt \in 0..Len(nodes) :
            \E m \in (IF throwAt = 0 THEN {MsgNone} ELSE displayErrors) :
                FetchResolve(i, nodes, throwAt, m)

Reject ==
    \E i \in 1..Len(inflight), m \in ErrorMessages : FetchReject(i, m)

----------------------------------------------------------------------------
(* The service right after its constructor *)

\* the provider is not looked at
NoRemote == [nodes |-> {}, page |-> {}, served |-> FALSE]

Fresh ==
    /\ isPolling = FALSE
    /\ timeoutId = NULL
    /\ timers = {}
    /\ inflight = <<>>
    /\ now = 1
    /\ ev = Ev("new", 0, [issued |-> 0, armed |-> <<>>, removed |-> <<>>, order |-> <<>>,
                      stale |-> FALSE])
    /\ lastFetched = NoCycle

\* the extension is enabled; the provider is not looked at
Untorn ==
    /\ lifecycle = "enabled"
    /\ remote = NoRemote

(* Scheduler slice: every scheduler operation, the interval and OAuth        *)
(* credential handlers, on any stored interval and OAuth credential, with   *)
(* the clock held and a provider of one notification.                       *)

Init ==
    /\ Fresh
    /\ Untorn
    /\ lastKnownUpdates = <<>>
    /\ settings \in SettingsOAuth

Next ==
    \/ Start /\ UNCHANGED others
    \/ Stop /\ UNCHANGED others
    \/ Restart /\ UNCHANGED others
    \/ ForcePoll /\ UNCHANGED others
    \/ \E seconds \in SetterArgs : SetPollingInterval(seconds) /\ UNCHANGED others
    \/ \E fired \in timers : TimerFire(fired) /\ UNCHANGED others
    \/ Resolve(SeqsUpTo(NodesSched, 1), DisplayErrors) /\ UNCHANGED others
    \/ Reject /\ UNCHANGED others
    \/ \E v \in DirectIntervals : WritePollingInterval(v) /\ UNCHANGED others
    \/ \E v \in OAuthTokens : WriteOAuthToken(v) /\ UNCHANGED others
    \/ \E v \in ExpiryTimes : WriteTokenExpiresAt(v) /\ UNCHANGED others

Spec == Init /\ [][Next]_vars

(* Dispatch slice: poll cycles against a provider of three notifications,   *)
(* with the clock running; the credential and the interval are held.        *)

InitCycle ==
    /\ Fresh
    /\ Untorn
    /\ lastKnownUpdates = <<>>
    /\ settings = SettingsAuthenticated

NextCycle ==
    \/ inflight = <<>> /\ Start /\ UNCHANGED others
    \/ inflight = <<>> /\ \E fired \in timers : TimerFire(fired) /\ UNCHANGED others
    \/ Resolve(SeqsUpTo(NodesCycle, MaxBatchCycle), {MsgHttp500}) /\ UNCHANGED others
    \/ Reject /\ UNCHANGED others
    \/ Reset /\ UNCHANGED others
    \/ Tick /\ UNCHANGED others

SpecCycle == InitCycle /\ [][NextCycle]_vars

(* Prune slice: the same cycles on a SeenSet that earlier polls have filled *)
(* to just below the ceiling; its oldest id is a notification the provider  *)
(* still returns.                                                           *)

Preloaded(n) ==
    [i \in 1..n |-> <<"notification", IF i = 1 THEN 1 ELSE 100 + i>>]

InitPrune ==
    /\ Fresh
    /\ Untorn
    /\ \E n \in (PruneCeiling - MaxPreload)..PruneCeiling : lastKnownUpdates = Preloaded(n)
    /\ settings = SettingsAuthenticated

NextPrune ==
    \/ inflight = <<>> /\ Start /\ UNCHANGED others
    \/ inflight = <<>> /\ \E fired \in timers : TimerFire(fired) /\ UNCHANGED others
    \/ Resolve(SeqsUpTo(NodesPrune, MaxBatch), {MsgHttp500}) /\ UNCHANGED others

SpecPrune == InitPrune /\ [][NextPrune]_vars

----------------------------------------------------------------------------
(* notification-manager.js: the per-type filter of showNotification.  In     *)
(* this slice settings holds the six notify-* switches and ev the outcome of *)
(* the last showNotification call.                                           *)

NotifyKeys ==
    {"notify-new-issues", "notify-issue-updates", "notify-assigned-issues",
     "notify-comments", "notify-mentions", "notify-status-changes"}

\* the types mapNotificationType produces, issue_updated, and a raw provider type
NotificationTypes ==
    {"new_issue", "issue_updated", "issue_assigned", "issue_unassigned", "new_comment",
     "mentioned", "status_change", "notification", "issueNewComment"}

\* faulty variant: a type without a switch is dropped
ShouldShowKnownOnly(st, type) ==
    CASE type = "new_issue" -> st["notify-new-issues"]
      [] type = "issue_updated" -> st["notify-issue-updates"]
      [] type = "issue_assigned" -> st["notify-assigned-issues"]
      [] type = "issue_unassigned" -> st["notify-assigned-issues"]
      [] type = "new_comment" -> st["notify-comments"]
      [] type = "mentioned" -> st["notify-mentions"]
      [] type = "status_change" -> st["notify-status-changes"]
      [] OTHER -> FALSE

\* LinearNotificationManager.shouldShowNotification
ShouldShowNotification(st, type) ==
    CASE type = "new_issue" -> st["notify-new-issues"]
      [] type = "issue_updated" -> st["notify-issue-updates"]
      [] type = "issue_assigned" -> st["notify-assigned-issues"]
      [] type = "issue_unassigned" -> st["notify-assigned-issues"]
      [] type = "new_comment" -> st["notify-comments"]
      [] type = "mentioned" -> st["notify-mentions"]
      [] type = "status_change" -> st["notify-status-changes"]
      [] OTHER -> TRUE

\* faulty variant: the source operation is not wrapped in try/catch
ShowNotificationUnguarded(st, type, sourceOk) ==
    IF ~ShouldShowNotification(st, type)
    THEN [passed |-> FALSE, added |-> FALSE, threw |-> FALSE]
    ELSE [passed |-> TRUE, added |-> sourceOk, threw |-> ~sourceOk]

\* LinearNotificationManager.showNotification: the filter, then the source
\* operation inside try/catch; sourceOk = FALSE: the source operation failed
ShowNotificationOp(st, type, sourceOk) ==
    IF ~ShouldShowNotification(st, type)
    THEN [passed |-> FALSE, added |-> FALSE, threw |-> FALSE]
    ELSE [passed |-> TRUE, added |-> sourceOk, threw |-> FALSE]

FilterEv(op, arg, sourceOk, r) ==
    [op |-> op, arg |-> arg, sourceOk |-> sourceOk,
     passed |-> r.passed, added |-> r.added, threw |-> r.threw]

ShowNotification(type, sourceOk) ==
    /\ ev' = FilterEv("showNotification", type, sourceOk,
                      ShowNotificationOp(settings, type, sourceOk))
    /\ UNCHANGED <<isPolling, timeoutId, lastKnownUpdates, timers, inflight, settings,
                   now, lastFetched>>

\* a switch of the preferences window is flipped
WriteNotifySetting(key, v) ==
    /\ settings' = [settings EXCEPT ![key] = v]
    /\ ev' = FilterEv("writeNotifySetting", key, TRUE,
                      [passed |-> FALSE, added |-> FALSE, threw |-> FALSE])
    /\ UNCHANGED <<isPolling, timeoutId, lastKnownUpdates, timers, inflight, now, lastFetched>>

InitFilter ==
    /\ isPolling = FALSE
    /\ timeoutId = NULL
    /\ timers = {}
    /\ inflight = <<>>
    /\ now = 1
    /\ lastKnownUpdates = <<>>
    /\ lastFetched = NoCycle
    /\ lifecycle = "enabled"
    /\ remote = NoRemote
    /\ settings = [k \in NotifyKeys |-> TRUE]
    /\ ev = FilterEv("new", "", TRUE, [passed |-> FALSE, added |-> FALSE, threw |-> FALSE])

NextFilter ==
    \/ \E type \in NotificationTypes, sourceOk \in BOOLEAN : ShowNotification(type, sourceOk) /\ UNCHANGED others
    \/ \E key \in NotifyKeys, v \in BOOLEAN : WriteNotifySetting(key, v) /\ UNCHANGED others

SpecFilter == InitFilter /\ [][NextFilter]_vars

----------------------------------------------------------------------------
(* Response slice: what makeRequest and getUpdates make of an HTTP response, *)
(* and poll cycles whose records are shown by the notification manager       *)
(* (showNotification with executeWithSource).                                *)

StatusOK == 200         \* Soup.Status.OK
MaxRetries == 2         \* executeWithSource: attempts on the source

MsgSyntaxError == <<"J","S","O","N",".","p","a","r","s","e">>
MsgGraphQLErrors == <<"G","r","a","p","h","Q","L"," ","e","r","r","o","r","s">>
MsgNodesUndefined == <<"n","o","d","e","s"," ","i","s"," ","u","n","d","e","f","i","n","e","d">>
MsgSourceDisposed == <<"d","i","s","p","o","s","e","d">>

ResponseStatuses == {StatusOK, 401, 500}
\* the body: the data asked for, a GraphQL errors field, text that does not parse,
\* data without notifications.nodes
ResponseBodies == {"data", "errors", "unparsable", "noNodes"}
Responses == [status : ResponseStatuses, body : ResponseBodies]

\* makeRequest's response callback: the error it rejects with, MsgNone when it resolves
MakeRequestError(resp) ==
    IF resp.status # StatusOK
    THEN (IF resp.status = 401 THEN MsgHttp401 ELSE MsgHttp500)
    ELSE IF resp.body = "unparsable" THEN MsgSyntaxError
    ELSE IF resp.body = "errors" THEN MsgGraphQLErrors
    ELSE MsgNone

\* getUpdates: a request error is thrown on; notifications.nodes.filter throws
\* when nodes is missing; both leave before updateLastUpdateTime
GetUpdatesError(resp) ==
    IF MakeRequestError(resp) # MsgNone THEN MakeRequestError(resp)
    ELSE IF resp.body = "noNodes" THEN MsgNodesUndefined
    ELSE MsgNone

\* executeWithSource: the operation is tried up to MaxRetries times on a fresh
\* source; the error of the last attempt is thrown again
ExecuteWithSource(attempts) ==
    LET done == \E a \in 1..MaxRetries : attempts[a]
    IN  [done |-> done, threw |-> ~done]

\* showNotification as the dispatch loop calls it for one record
ShowRecord(st, attempts) ==
    ShowNotificationOp(st, "notification", ExecuteWithSource(attempts).done)

\* the first call of the batch that throws, 0 when every call returns
DisplayThrowAt(st, outcomes) ==
    IF \E k \in 1..Len(outcomes) : ShowRecord(st, outcomes[k]).threw
    THEN CHOOSE k \in 1..Len(outcomes) :
            /\ ShowRecord(st, outcomes[k]).threw
            /\ \A j \in 1..(k - 1) : ~ShowRecord(st, outcomes[j]).threw
    ELSE 0

\* the response to request i arrives
Respond(i, resp, nodes) ==
    /\ i \in 1..Len(inflight)
    /\ IF GetUpdatesError(resp) # MsgNone
       THEN FetchReject(i, GetUpdatesError(resp))
       ELSE LET new == NewUpdates(lastKnownUpdates, GetUpdates(nodes, inflight[i]))
            IN  \E outcomes \in [1..Len(new) -> [1..MaxRetries -> BOOLEAN]] :
                    FetchResolve(i, nodes, DisplayThrowAt(settings, outcomes),
                                 IF \E k \in 1..Len(new) : ~ExecuteWithSource(outcomes[k]).done
                                 THEN MsgSourceDisposed ELSE MsgNone)

NextResponse ==
    \/ inflight = <<>> /\ Start /\ UNCHANGED others
    \/ inflight = <<>> /\ \E fired \in timers : TimerFire(fired) /\ UNCHANGED others
    \/ \E i \in 1..Len(inflight), resp \in Responses, nodes \in SeqsUpTo(NodesPrune, MaxBatch) :
            Respond(i, resp, nodes) /\ UNCHANGED others

SpecResponse == InitCycle /\ [][NextResponse]_vars

----------------------------------------------------------------------------
(* Normalization slice: mapNotificationType, formatNotificationTitle and     *)
(* formatNotificationBody applied to one raw record.  A text is the tuple of *)
(* its pieces, <<>> the empty string; an optional field is [present, text].  *)

\* names every object literal inherits from Object.prototype
ObjectPrototypeKeys == {"constructor", "toString", "__proto__"}

\* the value found under an inherited name: a function or the prototype object
InheritedProperty(key) ==
    CASE key = "constructor" -> "function Object"
      [] key = "toString" -> "function toString"
      [] OTHER -> "Object.prototype"

\* LinearAPIClient.mapNotificationType: typeMap[linearType] || 'notification'.
\* The lookup also finds the names typeMap inherits; an absent type is looked
\* up as the name "undefined".
MapNotificationType(linearType) ==
    CASE linearType = "issueCreated" -> "new_issue"
      [] linearType = "issueAssigned" -> "issue_assigned"
      [] linearType = "issueStatusChanged" -> "status_change"
      [] linearType = "issueCommentCreated" -> "new_comment"
      [] linearType = "issueMentioned" -> "mentioned"
      [] linearType = "issueUnassigned" -> "issue_unassigned"
      [] linearType \in ObjectPrototypeKeys -> InheritedProperty(linearType)
      [] OTHER -> "notification"

\* LinearAPIClient.getNotificationTypeIcon: iconMap[notificationType] || ''
GetNotificationTypeIcon(notificationType) ==
    CASE notificationType = "issueNewComment" -> <<"[comment]">>
      [] notificationType = "issueCommentMention" -> <<"@">>
      [] notificationType = "issueAssigned" -> <<"[person]">>
      [] notificationType = "issueUnassigned" -> <<"[person]">>
      [] notificationType = "issueStatusChanged" -> <<"[clipboard]">>
      [] notificationType = "issueCreated" -> <<"+">>
      [] notificationType = "issueAddedToView" -> <<"[folder]">>
      [] notificationType = "triageResponsibilityIssueAddedToTriage" -> <<"[search]">>
      [] notificationType \in ObjectPrototypeKeys -> <<InheritedProperty(notificationType)>>
      [] OTHER -> <<>>

\* a field that is absent, null or the empty string
Falsy(field) == ~field.present \/ field.text = <<>>

\* LinearAPIClient.formatNotificationTitle
FormatNotificationTitle(notification) ==
    LET title == IF Falsy(notification.title) THEN <<"Linear Notification">>
                 ELSE notification.title.text
    IN  IF ~Falsy(notification.identifier)
        THEN notification.identifier.text \o <<" ">> \o title
        ELSE title

\* faulty variant: the subtitle is returned without the fallback text
FormatBodyNoFallback(notification) ==
    IF Falsy(notification.subtitle) THEN <<>> ELSE notification.subtitle.text

\* LinearAPIClient.formatNotificationBody
FormatNotificationBody(notification) ==
    LET body == IF Falsy(notification.subtitle) THEN <<>> ELSE notification.subtitle.text
        typeIcon == GetNotificationTypeIcon(notification.type)
        prefixed == IF typeIcon # <<>> /\ body # <<>> THEN typeIcon \o <<" ">> \o body ELSE body
    IN  IF prefixed = <<>> THEN <<"New activity in Linear">> ELSE prefixed

RawTypes ==
    {"issueCreated", "issueAssigned", "issueUnassigned", "issueStatusChanged",
     "issueCommentCreated", "issueMentioned", "issueNewComment", "issueCommentMention",
     "projectUpdateCreated", "undefined", "constructor", "toString"}

OptionalText(text) ==
    {[present |-> FALSE, text |-> <<>>], [present |-> TRUE, text |-> <<>>],
     [present |-> TRUE, text |-> text]}

RawRecords ==
    [type : RawTypes, title : OptionalText(<<"Fix login">>),
     subtitle : OptionalText(<<"Assigned to you">>), identifier : OptionalText(<<"ENG-1">>)]

\* the fields getUpdates derives from the record
NormalizeEv(op, raw) ==
    [op |-> op, raw |-> raw, type |-> MapNotificationType(raw.type),
     title |-> FormatNotificationTitle(raw), body |-> FormatNotificationBody(raw)]

Normalize(raw) ==
    /\ ev' = NormalizeEv("normalize", raw)
    /\ UNCHANGED <<isPolling, timeoutId, lastKnownUpdates, timers, inflight, settings,
                   now, lastFetched>>

InitNormalize ==
    /\ isPolling = FALSE
    /\ timeoutId = NULL
    /\ timers = {}
    /\ inflight = <<>>
    /\ now = 1
    /\ lastKnownUpdates = <<>>
    /\ lastFetched = NoCycle
    /\ lifecycle = "enabled"
    /\ remote = NoRemote
    /\ settings = SettingsAuthenticated
    /\ ev = [NormalizeEv("new", CHOOSE r \in RawRecords : r.type = "issueCreated")
                EXCEPT !.type = "", !.title = <<>>, !.body = <<>>]

NextNormalize == \E raw \in RawRecords : Normalize(raw) /\ UNCHANGED others

SpecNormalize == InitNormalize /\ [][NextNormalize]_vars

----------------------------------------------------------------------------
(* Overlap slice: poll cycles whose requests are in flight at the same time *)
(* (a restart or a timer firing while a request is awaited), against the    *)
(* provider of three notifications, shown by the notification manager; the  *)
(* clock is held.                                                           *)

\* showNotification contains the errors of the source, so no display call throws
NextOverlap ==
    \/ Start /\ UNCHANGED others
    \/ Restart /\ UNCHANGED others
    \/ \E fired \in timers : TimerFire(fired) /\ UNCHANGED others
    \/ Resolve(SeqsUpTo(NodesCycle, MaxBatch), {}) /\ UNCHANGED others
    \/ \E i \in 1..Len(inflight) : FetchReject(i, MsgHttp500) /\ UNCHANGED others
    \/ Reset /\ UNCHANGED others

SpecOverlap == InitCycle /\ [][NextOverlap]_vars

----------------------------------------------------------------------------
(* Delivery slice: the provider creates notifications while the service     *)
(* polls.  A request is served by the provider at some moment between its   *)
(* sending and the arrival of the response: the page it carries is the      *)
(* provider's content at that moment.  Every request succeeds and every     *)
(* display call returns; one request is in flight at a time.                *)

PageSize == 50          \* getUpdates: getNotifications(50)

\* notifications(first: 50, orderBy: createdAt): at most PageSize of the nodes held
Pages(nodes) ==
    {p \in SUBSET nodes :
        Cardinality(p) = (IF Cardinality(nodes) > PageSize THEN PageSize ELSE Cardinality(nodes))}

\* the nodes of a page in the order of the response (orderBy: createdAt)
RECURSIVE PageNodes(_)
PageNodes(page) ==
    IF page = {} THEN <<>>
    ELSE LET first == CHOOSE n \in page :
                        \A m \in page : n.createdAt < m.createdAt \/
                                         (n.createdAt = m.createdAt /\ n.id <= m.id)
         IN  <<first>> \o PageNodes(page \ {first})

\* a request leaves: the provider has not served it yet
Sent == [remote EXCEPT !.page = {}, !.served = FALSE]

\* the provider handles the request in flight
Serve ==
    /\ inflight # <<>>
    /\ ~remote.served
    /\ \E p \in Pages(remote.nodes) : remote' = [remote EXCEPT !.page = p, !.served = TRUE]
    /\ ev' = Ev("serve", 0, Service)
    /\ UNCHANGED <<isPolling, timeoutId, timers, inflight, lastKnownUpdates, settings, now,
                   lastFetched, lifecycle>>

\* the provider creates k notifications, stamped with a time later than every
\* time read so far
Create(k) ==
    /\ now < MaxTime
    /\ now' = now + 1
    /\ remote' = [remote EXCEPT
                     !.nodes = @ \cup {[id |-> Cardinality(@) + i, createdAt |-> now + 1] :
                                          i \in 1..k}]
    /\ ev' = Ev("create", k, Service)
    /\ UNCHANGED <<isPolling, timeoutId, timers, inflight, lastKnownUpdates, settings,
                   lastFetched, lifecycle>>

\* the response arrives with the page the provider served
Deliver ==
    /\ remote.served
    /\ FetchResolve(1, PageNodes(remote.page), 0, MsgNone)
    /\ UNCHANGED others

StartDeliver == inflight = <<>> /\ Start /\ remote' = Sent /\ UNCHANGED lifecycle

TimerDeliver ==
    inflight = <<>> /\ \E fired \in timers : TimerFire(fired) /\ remote' = Sent /\ UNCHANGED lifecycle

NextDeliver ==
    \/ StartDeliver
    \/ TimerDeliver
    \/ Serve
    \/ Deliver
    \/ \E k \in 1..MaxRecords : Create(k)
    \/ Tick /\ UNCHANGED others

\* the service is started, timers fire, requests are served and answered
SpecDeliver ==
    /\ InitCycle
    /\ [][NextDeliver]_vars
    /\ WF_vars(StartDeliver)
    /\ WF_vars(TimerDeliver)
    /\ WF_vars(Serve)
    /\ WF_vars(Deliver)

----------------------------------------------------------------------------
(* Expiry slice: the credential is an OAuth token that expires when the     *)
(* clock reaches MaxTime; the clock runs, and token-expires-at can be       *)
(* rewritten (no handler listens to it).                                    *)

SettingsExpiring ==
    [pollingInterval |-> 60, authMethod |-> "oauth", apiToken |-> "",
     oauthToken |-> "oauth_access", tokenExpiresAt |-> MaxTime, lastUpdateTime |-> NULL]

InitExpiry ==
    /\ Fresh
    /\ Untorn
    /\ lastKnownUpdates = <<>>
    /\ settings = SettingsExpiring

NextExpiry ==
    \/ Start /\ UNCHANGED others
    \/ \E fired \in timers : TimerFire(fired) /\ UNCHANGED others
    \/ Resolve(SeqsUpTo(NodesSched, 1), {MsgHttp500}) /\ UNCHANGED others
    \/ Reject /\ UNCHANGED others
    \/ Tick /\ UNCHANGED others
    \/ \E v \in {MaxTime, MaxTime + 1} : WriteTokenExpiresAt(v) /\ UNCHANGED others

SpecExpiry == InitExpiry /\ [][NextExpiry]_vars

----------------------------------------------------------------------------
(* Credential slice: both authentication methods; the API token, the OAuth  *)
(* token, its expiry and the method are written while the service runs, and *)
(* the handlers of the service and of the extension react.  The clock is    *)
(* held.                                                                    *)

\* LinearOAuthHandler.logout: oauth-token is cleared (its handlers run), then
\* refresh-token, token-expires-at and oauth-state (no handler listens)
Logout ==
    LET st1 == [settings EXCEPT !.oauthToken = ""]
        s == OAuthTokenChanged(Service, st1, now)
    IN  /\ Becomes(s)
        /\ settings' = [st1 EXCEPT !.tokenExpiresAt = NULL]
        /\ ev' = Ev("logout", 0, s)
        /\ UNCHANGED <<lastKnownUpdates, now, lastFetched>>

\* any credential, with the shortest interval
SettingsCredential == {v \in SettingsValues : v.pollingInterval = MinInterval}

InitCredential ==
    /\ Fresh
    /\ Untorn
    /\ lastKnownUpdates = <<>>
    /\ settings \in SettingsCredential

NextCredential ==
    \/ Start /\ UNCHANGED others
    \/ \E fired \in timers : TimerFire(fired) /\ UNCHANGED others
    \/ Resolve(SeqsUpTo(NodesSched, 1), {MsgHttp500}) /\ UNCHANGED others
    \/ \E i \in 1..Len(inflight) : FetchReject(i, MsgHttp500) /\ UNCHANGED others
    \/ \E v \in ApiTokens : WriteApiToken(v) /\ UNCHANGED others
    \/ \E v \in OAuthTokens : WriteOAuthToken(v) /\ UNCHANGED others
    \/ \E m \in AuthMethods : WriteAuthMethod(m) /\ UNCHANGED others
    \/ \E v \in ExpiryTimes : WriteTokenExpiresAt(v) /\ UNCHANGED others
    \/ Logout /\ UNCHANGED others

SpecCredential == InitCredential /\ [][NextCredential]_vars

----------------------------------------------------------------------------
(* Teardown slice: the extension is disabled (disable() calls stop() on the  *)
(* service and drops its reference) or the service is destroyed.  The two    *)
(* handlers the service connected in its constructor are disconnected by     *)
(* neither, so they stay connected for as long as the settings object lives. *)

\* LinearNotificationsExtension.disable: the extension's own handlers are
\* disconnected, then pollingService.stop(), then the reference is dropped
Disable ==
    LET s == StopOp(Service)
    IN  /\ lifecycle = "enabled"
        /\ Becomes(s)
        /\ ev' = Ev("disable", 0, s)
        /\ lifecycle' = "disabled"
        /\ UNCHANGED <<lastKnownUpdates, settings, now, lastFetched, remote>>

\* LinearPollingService.destroy: stop(), then linearClient is set to null
Destroy ==
    LET s == StopOp(Service)
    IN  /\ lifecycle = "enabled"
        /\ Becomes(s)
        /\ ev' = Ev("destroy", 0, s)
        /\ lifecycle' = "destroyed"
        /\ UNCHANGED <<lastKnownUpdates, settings, now, lastFetched, remote>>

\* restart() on a destroyed service: stop(), then start() reads
\* this.linearClient.isAuthenticated() on null and throws
RestartDestroyed(s) == StopOp(s)

\* a settings change reaches the handler of a destroyed service
ChangedAfterDestroy(key) ==
    LET s == RestartDestroyed(Service)
    IN  /\ lifecycle = "destroyed"
        /\ Becomes(s)
        /\ ev' = [Ev("changedAfterDestroy", key, s) EXCEPT !.threw = TRUE]
        /\ UNCHANGED <<lastKnownUpdates, settings, now, lastFetched, lifecycle, remote>>

\* changed::oauth-token after disable(): only the service's handler is left
WriteOAuthTokenDisabled(v) ==
    LET st == [settings EXCEPT !.oauthToken = v]
        s == RestartOp(Service, st, now)
    IN  /\ lifecycle = "disabled"
        /\ Becomes(s)
        /\ settings' = st
        /\ ev' = Ev("writeOAuthToken", 0, s)
        /\ UNCHANGED <<lastKnownUpdates, now, lastFetched, lifecycle, remote>>

NextTeardown ==
    \/ lifecycle = "enabled" /\ Start /\ UNCHANGED others
    \/ \E fired \in timers : TimerFire(fired) /\ UNCHANGED others
    \/ Resolve(SeqsUpTo(NodesSched, 1), {MsgHttp500}) /\ UNCHANGED others
    \/ Reject /\ UNCHANGED others
    \/ lifecycle # "destroyed" /\ \E v \in DirectIntervals : WritePollingInterval(v) /\ UNCHANGED others
    \/ lifecycle = "enabled" /\ \E v \in OAuthTokens : WriteOAuthToken(v) /\ UNCHANGED others
    \/ \E v \in OAuthTokens : WriteOAuthTokenDisabled(v)
    \/ \E key \in {"polling-interval", "oauth-token"} : ChangedAfterDestroy(key)
    \/ Disable
    \/ Destroy

SpecTeardown == InitCycle /\ [][NextTeardown]_vars

----------------------------------------------------------------------------
(* Properties *)

IdsOf(updates) == {updates[i].id : i \in 1..Len(updates)}

\* the last callback was a poll cycle whose fetch resolved and whose display calls all returned
CycleCompleted(e) == e.op = "pollResolve" /\ ~e.threw

\* the timestamp of the k-th showNotification call of a cycle
ShownAt(e, k) ==
    e.updates[CHOOSE i \in 1..Len(e.updates) : e.updates[i].id = e.shown[k]].t

(* C1 - Dedup idempotence: of two completed poll cycles in a row, if the   *)
(* second fetch returns no record whose id was absent from the first       *)
(* fetch's result, the second cycle makes no showNotification call.        *)
C1_DedupIdempotence ==
    [][(/\ CycleCompleted(ev')
        /\ lastFetched.valid
        /\ IdsOf(ev'.updates) \subseteq lastFetched.ids)
       => ev'.shown = <<>>]_vars

(* C2 - In a successful poll cycle showNotification is called exactly once *)
(* for each returned record whose id is not in SeenSet at filter time,     *)
(* never for a record whose id is in SeenSet, in the order getUpdates      *)
(* returned them, and afterwards every dispatched id is in SeenSet.        *)
C2_DispatchExactlyNew ==
    [][CycleCompleted(ev') =>
        LET u == ev'.updates
            shown == ev'.shown
            unseen == {i \in 1..Len(u) : ~\E j \in 1..Len(lastKnownUpdates) :
                                             lastKnownUpdates[j] = u[i].id}
            \* the index in u of the k-th unseen record
            nth(k) == CHOOSE i \in unseen : Cardinality({j \in unseen : j <= i}) = k
        IN  /\ Len(shown) = Cardinality(unseen)
            /\ \A k \in 1..Len(shown) : shown[k] = u[nth(k)].id
            /\ \A k \in 1..Len(shown) :
                   \E j \in 1..Len(lastKnownUpdates') : lastKnownUpdates'[j] = shown[k]
      ]_vars

\* the spec's scenario: a and b are seen, the fetch returns b and c, only c is dispatched
C2_Witness ==
    /\ CycleCompleted(ev)
    /\ IdsOf(ev.updates) = {<<"notification", 2>>, <<"notification", 3>>}
    /\ ev.shown = << <<"notification", 3>> >>
    /\ Range(lastKnownUpdates) = {<<"notification", 1>>, <<"notification", 2>>, <<"notification", 3>>}

\* the prune check of a cycle ran: the batch was not empty and no display call threw
PruneChecked(e) == CycleCompleted(e) /\ e.shown # <<>>

C5_AscendingOrder ==
    [][(/\ CycleCompleted(ev')
        /\ lastKnownUpdates = <<>>
        /\ Len(ev'.updates) = 3
        /\ Cardinality({ev'.updates[i].t : i \in 1..3}) = 3) =>
        \A k \in 1..(Len(ev'.shown) - 1) : ShownAt(ev', k) <= ShownAt(ev', k + 1)]_vars

(* C5 as amended: the calls are made most recent first, that is in         *)
(* non-increasing timestamp order (whatever SeenSet holds).                *)
C5_MostRecentFirst ==
    CycleCompleted(ev) =>
        \A k \in 1..(Len(ev.shown) - 1) : ShownAt(ev, k) >= ShownAt(ev, k + 1)

\* three records with three timestamps, none seen before, all dispatched
C5_Witness ==
    /\ CycleCompleted(ev)
    /\ Len(ev.shown) = 3
    /\ Len(lastKnownUpdates) = 3
    /\ {ev.updates[i].t : i \in 1..3} = {1, 2, 3}


\* every field of the service and every setting
Untouched == UNCHANGED <<isPolling, timeoutId, timers, inflight, lastKnownUpdates, settings>>

(* C6 - setPollingInterval(s) with s < 30 or s > 300 fails with an error   *)
(* and changes nothing: the stored interval, isPolling, the armed timer    *)
(* and SeenSet are as before, and no restart is triggered.                 *)
C6_RejectOutOfRange ==
    [][(ev'.op = "setPollingInterval" /\ (ev'.arg < 30 \/ ev'.arg > 300)) =>
        /\ ev'.threw
        /\ Untouched
        /\ ev'.removed = <<>> /\ ev'.armed = <<>> /\ ev'.issued = 0]_vars

\* rejected while a timer is armed
C6_Witness ==
    /\ ev.op = "setPollingInterval"
    /\ ev.arg = 301
    /\ ev.threw
    /\ isPolling
    /\ timers # {}

(* C7 - for 30 <= s <= 300, setPollingInterval(s) succeeds and stores s;   *)
(* the timer armed by the restart that follows (while authenticated) has a *)
(* duration of exactly s seconds, and the timer that was pending before is *)
(* no longer armed.                                                        *)
C7_AcceptInRange ==
    [][(ev'.op = "setPollingInterval" /\ ev'.arg >= 30 /\ ev'.arg <= 300) =>
        /\ ~ev'.threw
        /\ settings'.pollingInterval = ev'.arg
        /\ \A old \in timers : \E k \in 1..Len(ev'.removed) : ev'.removed[k] = old.id
        /\ IsAuthenticated(settings', now') =>
              /\ ev'.armed = <<ev'.arg>>
              /\ timers' = {[id |-> timeoutId', dur |-> ev'.arg]}
        /\ Cardinality(timers') <= 1]_vars

\* a pending timer of another duration was replaced by one of 300 seconds
C7_Witness ==
    /\ ev.op = "setPollingInterval"
    /\ ev.arg = 300
    /\ ev.removed # <<>>
    /\ ev.armed = <<300>>
    /\ timers = {[id |-> timeoutId, dur |-> 300]}

(* C8 - Interval floor: every timer armed by the scheduler has duration    *)
(* max(30, stored polling-interval) seconds, so none is shorter than 30    *)
(* seconds, whatever the setting holds.                                    *)
C8_IntervalFloor ==
    LET floor == IF settings.pollingInterval > 30 THEN settings.pollingInterval ELSE 30
    IN  /\ \A k \in 1..Len(ev.armed) : ev.armed[k] = floor
        /\ \A t \in timers : t.dur = floor /\ t.dur >= 30

\* the setting holds 10 and the timer armed is one of 30 seconds
C8_Witness ==
    /\ settings.pollingInterval = 10
    /\ ev.armed = <<30>>
    /\ \E t \in timers : t.dur = 30

(* C9 - Auth-gated start: start(), called directly or through restart(),   *)
(* while isAuthenticated() is false leaves isPolling false, arms no timer, *)
(* issues no fetch and leaves SeenSet unchanged.                           *)
C9_AuthGatedStart ==
    [][(ev'.op \in {"start", "restart"} /\ ~IsAuthenticated(settings, now)) =>
        /\ isPolling' = FALSE
        /\ timers' = {}
        /\ ev'.armed = <<>>
        /\ ev'.issued = 0
        /\ lastKnownUpdates' = lastKnownUpdates]_vars

(* C9 as amended: start() on a service that is not polling, and restart()  *)
(* in any state, while isAuthenticated() is false leave isPolling false,   *)
(* arm no timer, issue no fetch and leave SeenSet unchanged; start() on a  *)
(* service that is already polling returns at once and changes nothing.    *)
C9_AuthGatedStartWhenStopped ==
    [][(ev'.op \in {"start", "restart"} /\ ~IsAuthenticated(settings, now)) =>
        /\ ev'.armed = <<>>
        /\ ev'.issued = 0
        /\ lastKnownUpdates' = lastKnownUpdates
        /\ (ev'.op = "restart" \/ ~isPolling) => (isPolling' = FALSE /\ timers' = {})
        /\ (ev'.op = "start" /\ isPolling) => Untouched]_vars

\* restart() without a credential took a polling service down
C9_Witness ==
    /\ ev.op = "restart"
    /\ ~IsAuthenticated(settings, now)
    /\ ev.removed # <<>>
    /\ ~isPolling
    /\ timers = {}

AuthErrors == {MsgHttp401, MsgInvalidToken, MsgAuthRequired}

\* the callbacks that call start() or restart()
Starters == {"start", "restart", "setPollingInterval", "writePollingInterval",
             "writeApiToken", "writeOAuthToken", "writeAuthMethod"}

(* C10 - Auth-failure circuit breaker: when a cycle's fetch rejects with a *)
(* message containing "unauthorized", "invalid token" or "authentication"  *)
(* in any letter case, then after its error handling isPolling is false,   *)
(* timeoutId is null and no timer is armed; and a service that is not      *)
(* polling issues no fetch and arms no timer until start() or restart()    *)
(* is called.                                                              *)
C10_CircuitBreaker ==
    [][/\ (ev'.op = "pollReject" /\ ev'.err \in AuthErrors) =>
              (isPolling' = FALSE /\ timeoutId' = NULL /\ timers' = {})
       /\ (~isPolling /\ ev'.op \notin Starters) =>
              (ev'.issued = 0 /\ ev'.armed = <<>> /\ isPolling' = FALSE /\ timers' = {})
      ]_vars

\* an upper-case AUTHENTICATION error cancelled the armed timer
C10_Witness ==
    /\ ev.op = "pollReject"
    /\ ev.err = MsgAuthRequired
    /\ ev.removed # <<>>
    /\ ~isPolling
    /\ timeoutId = NULL
    /\ timers = {}


(* C11 - start() is idempotent: called while isPolling is already true it  *)
(* issues no fetch, arms no additional timer and leaves timeoutId,         *)
(* isPolling and SeenSet unchanged.                                        *)
C11_StartIdempotent ==
    [][(ev'.op = "start" /\ isPolling) =>
        /\ ev'.issued = 0
        /\ ev'.armed = <<>>
        /\ ev'.removed = <<>>
        /\ UNCHANGED <<timeoutId, isPolling, lastKnownUpdates, timers, inflight>>]_vars

\* start() on a polling, authenticated service: a start from the stopped state
\* would have issued a fetch
C11_Witness ==
    /\ ev.op = "start"
    /\ IsAuthenticated(settings, now)
    /\ isPolling
    /\ timers # {}
    /\ ev.issued = 0
    /\ ev.armed = <<>>

(* C12 - stop() is idempotent and safe in every state: after stop()        *)
(* isPolling is false, timeoutId is null and no timer of the service is    *)
(* pending; the id it removes is that of an attached source; on a service  *)
(* that is already stopped or was never started it changes nothing.        *)
C12_StopIdempotent ==
    [][ev'.op = "stop" =>
        /\ isPolling' = FALSE
        /\ timeoutId' = NULL
        /\ timers' = {}
        /\ ~ev'.threw
        /\ \A k \in 1..Len(ev'.removed) : \E t \in timers : t.id = ev'.removed[k]
        /\ (~isPolling /\ timeoutId = NULL) =>
              (ev'.removed = <<>> /\
               UNCHANGED <<isPolling, timeoutId, timers, inflight, lastKnownUpdates, settings>>)
      ]_vars

\* stop() on a stopped service whose last request is still awaited
C12_Witness ==
    /\ ev.op = "stop"
    /\ ev.removed = <<>>
    /\ ~isPolling
    /\ timeoutId = NULL
    /\ timers = {}
    /\ inflight # <<>>

(* C13 - No duplicate timers: in every reachable state, after any          *)
(* interleaving of start(), stop(), restart(), settings-change callbacks,  *)
(* timer firings and fetch completions, at most one timer created by the   *)
(* scheduler is pending.                                                   *)
C13_NoDuplicateTimers == Cardinality(timers) <= 1

\* a timer fired while a request was awaited and left exactly one successor
C13_Witness ==
    /\ ev.op = "timer"
    /\ ev.armed # <<>>
    /\ Len(inflight) = 2
    /\ Cardinality(timers) = 1

(* C14 - At most one fetch is outstanding at a time: in every reachable    *)
(* state, including after restart() or a settings change or a timer firing *)
(* while a getUpdates() call is still awaited, the number of getUpdates()  *)
(* calls in flight is at most 1.                                           *)
C14_SingleFetch == Len(inflight) <= 1

(* C15 - start() on a stopped, authenticated service sets isPolling to     *)
(* true, begins exactly one immediate poll cycle and then arms exactly one *)
(* recurring timer; when it returns isPolling is true and exactly one      *)
(* timer is pending.                                                       *)
C15_StartSequence ==
    [][(ev'.op = "start" /\ ~isPolling /\ IsAuthenticated(settings, now)) =>
        /\ isPolling' = TRUE
        /\ ev'.issued = 1
        /\ Len(inflight') = Len(inflight) + 1
        /\ ev'.order = <<"fetch", "arm">>
        /\ Cardinality(timers') = 1
        /\ \E t \in timers' : t.id = timeoutId']_vars

\* a start that issued the first request and armed the timer
C15_Witness ==
    /\ ev.op = "start"
    /\ ev.order = <<"fetch", "arm">>
    /\ isPolling
    /\ Cardinality(timers) = 1
    /\ Len(inflight) = 1

(* C16 - A fetch failure that is not classified as an authentication error *)
(* is not fatal: isPolling, the pending timer and SeenSet are unchanged,   *)
(* nothing is dispatched, no fetch is retried by the failure handling, and *)
(* the next timer firing (the service polling and authenticated) issues a  *)
(* new fetch.                                                              *)
C16_FailureNotFatal ==
    [][/\ (ev'.op = "pollReject" /\ ~IsAuthenticationError(ev'.err)) =>
            /\ UNCHANGED <<isPolling, timeoutId, timers, lastKnownUpdates, settings>>
            /\ ev'.shown = <<>>
            /\ ev'.issued = 0
            /\ ev'.armed = <<>>
            /\ ev'.removed = <<>>
       /\ (ev'.op = "timer" /\ isPolling /\ IsAuthenticated(settings, now)) =>
            (ev'.issued = 1 /\ Len(inflight') = Len(inflight) + 1)
      ]_vars

\* an HTTP 500 left the service polling with its timer armed
C16_Witness ==
    /\ ev.op = "pollReject"
    /\ ev.err = MsgHttp500
    /\ isPolling
    /\ Cardinality(timers) = 1
    /\ inflight = <<>>

SwitchOf(type) ==
    CASE type = "new_issue" -> "notify-new-issues"
      [] type \in {"issue_assigned", "issue_unassigned"} -> "notify-assigned-issues"
      [] type = "new_comment" -> "notify-comments"
      [] type = "mentioned" -> "notify-mentions"
      [] type = "status_change" -> "notify-status-changes"
      [] type = "issue_updated" -> "notify-issue-updates"
      [] OTHER -> ""

(* C18 - Notification filtering by event type: showNotification adds a     *)
(* notification to the message-tray source only if the switch of its type  *)
(* is enabled (new_issue: notify-new-issues, issue_assigned and            *)
(* issue_unassigned: notify-assigned-issues, new_comment: notify-comments, *)
(* mentioned: notify-mentions, status_change: notify-status-changes,       *)
(* issue_updated: notify-issue-updates); a notification of any other type, *)
(* the fallback 'notification' included, always passes the filter and is   *)
(* added whenever the source operation succeeds.                           *)
C18_FilterByType ==
    ev.op = "showNotification" =>
        /\ ~ev.threw
        /\ IF SwitchOf(ev.arg) # ""
           THEN /\ ev.added => settings[SwitchOf(ev.arg)]
                /\ ev.passed <=> settings[SwitchOf(ev.arg)]
           ELSE ev.passed
        /\ ev.added <=> (ev.passed /\ ev.sourceOk)

\* every switch is off and a notification of the fallback type is added
C18_Witness ==
    /\ ev.op = "showNotification"
    /\ ev.arg = "notification"
    /\ \A k \in NotifyKeys : ~settings[k]
    /\ ev.added


(* C19 - Poll cycles execute strictly sequentially: the timer for cycle    *)
(* N+1 is armed only after cycle N's fetch has returned and its dispatch   *)
(* loop has completed, so a fetch that takes longer than the polling       *)
(* interval never overlaps with the start of the next cycle.               *)
C19_SequentialCycles ==
    [][/\ ev'.armed # <<>> => inflight' = <<>>
       /\ (ev'.op = "timer" /\ ev'.issued > 0) => inflight = <<>>
      ]_vars

(* C20 - Cancellation of an in-flight cycle: if stop() is called while a   *)
(* poll cycle is awaiting getUpdates(), then when the fetch resolves its   *)
(* result is discarded: showNotification is called for none of its records *)
(* and SeenSet is not changed.                                             *)
C20_DiscardAfterStop ==
    [][(ev'.op = "pollResolve" /\ ~isPolling) =>
        (ev'.shown = <<>> /\ lastKnownUpdates' = lastKnownUpdates)]_vars


(* C21 - poll() (and forcePoll()) is a no-op when isPolling is false or    *)
(* isAuthenticated() is false: no getUpdates() call is made, nothing is    *)
(* dispatched, and SeenSet, isPolling, timeoutId and the watermark are     *)
(* left unchanged; the poll() of a timer callback likewise issues nothing. *)
C21_PollNoOp ==
    [][/\ (ev'.op = "forcePoll" /\ (~isPolling \/ ~IsAuthenticated(settings, now))) =>
            /\ ev'.issued = 0
            /\ ev'.shown = <<>>
            /\ ev'.promise = "resolved"
            /\ UNCHANGED <<lastKnownUpdates, isPolling, timeoutId, timers, inflight, settings>>
       /\ (ev'.op = "timer" /\ ~IsAuthenticated(settings, now)) =>
            /\ ev'.issued = 0
            /\ ev'.shown = <<>>
            /\ UNCHANGED <<lastKnownUpdates, isPolling, inflight, settings>>
      ]_vars

\* forcePoll() on a polling service whose credential is no longer valid
C21_Witness ==
    /\ ev.op = "forcePoll"
    /\ isPolling
    /\ ~IsAuthenticated(settings, now)
    /\ ev.issued = 0
    /\ ev.promise = "resolved"

(* C22 - Each timer firing starts exactly one poll() cycle and, if the     *)
(* service is still polling, arms exactly one new one-shot timer; the      *)
(* fired timer itself never fires a second time.                           *)
C22_TimerFiring ==
    [][ev'.op = "timer" =>
        /\ ev'.issued = (IF isPolling /\ IsAuthenticated(settings, now) THEN 1 ELSE 0)
        /\ Len(inflight') = Len(inflight) + ev'.issued
        /\ timers \cap timers' = {}
        /\ \A t \in timers, u \in timers' : u.id # t.id
        /\ IF isPolling'
           THEN /\ Len(ev'.armed) = 1
                /\ ev'.order[Len(ev'.order)] = "arm"
                /\ Cardinality(timers') = 1
                /\ \E u \in timers' : u.id = timeoutId'
           ELSE ev'.armed = <<>> /\ timers' = {}
      ]_vars

\* a firing that issued one fetch and then armed the next timer
C22_Witness ==
    /\ ev.op = "timer"
    /\ ev.order = <<"fetch", "arm">>
    /\ ev.issued = 1
    /\ Cardinality(timers) = 1
    /\ isPolling

(* C23 - The effective polling interval is clamped to [30,300]: no timer   *)
(* armed by the scheduler has a duration above 300 seconds, whatever value *)
(* the polling-interval setting holds.                                     *)
C23_IntervalCeiling ==
    /\ \A t \in timers : t.dur >= 30 /\ t.dur <= 300
    /\ \A k \in 1..Len(ev.armed) : ev.armed[k] <= 300

(* C30 - No double-cancel, no leaked handle: stop() never calls            *)
(* GLib.Source.remove on a timer id that has already fired or already been *)
(* removed, and no timer created by the service is ever pending while      *)
(* timeoutId does not hold its id.                                         *)
C30_NoDoubleCancel ==
    /\ ~ev.stale
    /\ \A t \in timers : t.id = timeoutId
    /\ timeoutId # NULL => \E t \in timers : t.id = timeoutId

\* a restart removed the pending timer and armed a new one under a new handle
C30_Witness ==
    /\ ev.op = "restart"
    /\ ev.order = <<"remove", "fetch", "arm">>
    /\ ~ev.stale
    /\ timers = {[id |-> timeoutId, dur |-> ev.armed[1]]}


(* C24 - SeenSet memory is capped at 1000 entries: in every reachable      *)
(* state, including the states between two add() calls inside one dispatch *)
(* batch, SeenSet holds at most 1000 ids.                                  *)
C24_CappedAtCeiling ==
    /\ Len(lastKnownUpdates) <= 1000
    /\ Len(ev.beforePrune) <= 1000

(* C26 - The watermark (last-update-time) is advanced only by a successful *)
(* fetch: a getUpdates() call whose request fails leaves it unchanged, and *)
(* a getUpdates() call that succeeds sets it to the current time and       *)
(* returns only records whose createdAt is strictly later than the         *)
(* watermark read at the start of that call.                               *)
C26_Watermark ==
    [][/\ settings'.lastUpdateTime # settings.lastUpdateTime => ev'.op = "pollResolve"
       /\ ev'.op = "pollReject" => settings' = settings
       /\ (ev'.op = "pollResolve" /\ Len(inflight) = 1) =>
            /\ settings'.lastUpdateTime = now
            /\ \A k \in 1..Len(ev'.updates) : ev'.updates[k].t > inflight[1]
      ]_vars

\* a second fetch advanced the watermark and returned only what was newer than the first
C26_Witness ==
    /\ ev.op = "pollResolve"
    /\ settings.lastUpdateTime = 2
    /\ Len(ev.updates) = 1
    /\ ev.updates[1].t = 3
    /\ Len(lastKnownUpdates) = 1


\* the errors a malformed or unexpected response ends in
MalformedErrors ==
    {MsgHttp401, MsgHttp500, MsgSyntaxError, MsgGraphQLErrors, MsgNodesUndefined}

(* C25 - A malformed or unexpected response (non-OK status, GraphQL errors *)
(* field, unparsable body, or missing notifications.nodes) is treated as a *)
(* fetch failure: no record of it is dispatched, SeenSet is unchanged, the *)
(* watermark is not advanced, and unless the error is classified as an     *)
(* authentication error the service keeps polling with its timer armed.    *)
C25_MalformedResponse ==
    [][ev'.op = "pollReject" =>
        /\ ev'.err \in MalformedErrors
        /\ ev'.shown = <<>>
        /\ lastKnownUpdates' = lastKnownUpdates
        /\ settings' = settings
        /\ IF IsAuthenticationError(ev'.err)
           THEN ~isPolling' /\ timers' = {}
           ELSE /\ UNCHANGED <<isPolling, timeoutId, timers>>
                /\ isPolling => Cardinality(timers') = 1
      ]_vars

\* a response without notifications.nodes: still polling, watermark never advanced
C25_Witness ==
    /\ ev.op = "pollReject"
    /\ ev.err = MsgNodesUndefined
    /\ isPolling
    /\ Cardinality(timers) = 1
    /\ settings.lastUpdateTime = NULL
    /\ lastKnownUpdates = <<>>

(* C29 - A display error for one record is not propagated into the         *)
(* scheduler's control flow: if showing one record of a batch fails,       *)
(* showNotification returns without throwing and the remaining new records *)
(* of the same batch are still dispatched and their ids added to SeenSet.  *)
C29_DisplayErrorContained ==
    [][ev'.op = "pollResolve" =>
        LET new == NewUpdates(lastKnownUpdates, ev'.updates)
        IN  /\ ~ev'.threw
            /\ ev'.promise = "resolved"
            /\ ev'.shown = [k \in 1..Len(new) |-> new[k].id]
            /\ \A k \in 1..Len(new) : SetHas(lastKnownUpdates', new[k].id)
            /\ UNCHANGED <<isPolling, timeoutId, timers>>
      ]_vars

\* the source operation failed for a record of a batch of two: both were
\* dispatched and both ids are in SeenSet
C29_Witness ==
    /\ ev.op = "pollResolve"
    /\ ev.err = MsgSourceDisposed
    /\ ~ev.threw
    /\ Len(ev.shown) = 2
    /\ \A k \in 1..2 : SetHas(lastKnownUpdates, ev.shown[k])


\* the internal types
TypeEnum ==
    {"new_issue", "issue_assigned", "issue_unassigned", "status_change", "new_comment",
     "mentioned", "notification"}

\* the type the claim names for a provider type
NormalizedTypeOf(linearType) ==
    CASE linearType = "issueCreated" -> "new_issue"
      [] linearType = "issueAssigned" -> "issue_assigned"
      [] linearType = "issueUnassigned" -> "issue_unassigned"
      [] linearType = "issueStatusChanged" -> "status_change"
      [] linearType = "issueCommentCreated" -> "new_comment"
      [] linearType = "issueMentioned" -> "mentioned"
      [] OTHER -> "notification"

(* C27 - Type normalization is total: mapNotificationType maps             *)
(* issueCreated, issueAssigned, issueUnassigned, issueStatusChanged,       *)
(* issueCommentCreated, issueMentioned to new_issue, issue_assigned,       *)
(* issue_unassigned, status_change, new_comment, mentioned, and every      *)
(* other provider type (an absent one included) to the fallback            *)
(* 'notification'; it never returns a value outside that enum.             *)
C27_TypeNormalization ==
    ev.op = "normalize" =>
        /\ ev.type \in TypeEnum
        /\ ev.type = NormalizedTypeOf(ev.raw.type)

(* C28 - For every raw record, whatever combination of title, subtitle,    *)
(* issue identifier and type is present or absent, the normalized title    *)
(* and body are both non-empty strings; the title falls back to 'Linear    *)
(* Notification' and the body to 'New activity in Linear'.                 *)
C28_TitleBodyNonEmpty ==
    ev.op = "normalize" =>
        /\ ev.title # <<>> /\ \A k \in 1..Len(ev.title) : ev.title[k] # ""
        /\ ev.body # <<>> /\ \A k \in 1..Len(ev.body) : ev.body[k] # ""
        /\ Falsy(ev.raw.title) =>
              ev.title[Len(ev.title)] = "Linear Notification"
        /\ Falsy(ev.raw.subtitle) => ev.body = <<"New activity in Linear">>

\* a record with no title, an empty subtitle and no issue identifier
C28_Witness ==
    /\ ev.op = "normalize"
    /\ ~ev.raw.title.present
    /\ ev.raw.subtitle = [present |-> TRUE, text |-> <<>>]
    /\ ~ev.raw.identifier.present
    /\ ev.title = <<"Linear Notification">>
    /\ ev.body = <<"New activity in Linear">>


(* C31 - Teardown is final: after the owning extension is disabled         *)
(* (disable() calling pollingService.stop()) or the service is destroyed,  *)
(* no timer of the service is pending and no fetch is started ever again,  *)
(* whatever settings (polling-interval, oauth-token) change afterwards.    *)
C31_TeardownFinal ==
    lifecycle # "enabled" => (timers = {} /\ timeoutId = NULL /\ ~isPolling /\ ev.issued = 0)

(* C32 - Whenever no scheduler method or timer callback is in the middle  *)
(* of executing, isPolling is true if and only if timeoutId is non-null if *)
(* and only if exactly one timer of the service is pending.                *)
C32_FlagHandleTimer ==
    /\ isPolling <=> timeoutId # NULL
    /\ timeoutId # NULL <=> Cardinality(timers) = 1
    /\ ~isPolling => timers = {}

\* the catch block of poll() stopped the service on an error of a display call
C32_Witness ==
    /\ ev.op = "pollResolve"
    /\ ev.threw
    /\ IsAuthenticationError(ev.err)
    /\ ev.removed # <<>>
    /\ ~isPolling
    /\ timeoutId = NULL
    /\ timers = {}

\* no two records of the result carry the same id
DistinctIds(updates) ==
    \A j, k \in 1..Len(updates) : j # k => updates[j].id # updates[k].id

C34_OncePerResult ==
    CycleCompleted(ev) =>
        \A id \in IdsOf(ev.updates) :
            Cardinality({k \in 1..Len(ev.shown) : ev.shown[k] = id}) <= 1

(* C35 - A failure of a stale cycle does not stop a newer session: if     *)
(* restart() happens while a fetch is in flight (the last callback was a   *)
(* restart that began a session and left the older request in flight next  *)
(* to its own) and that older fetch then rejects with an authentication    *)
(* error, the session begun by the restart keeps isPolling true and its    *)
(* timer armed.                                                            *)
C35_StaleFailure ==
    [][(/\ ev.op \in {"restart", "writePollingInterval", "writeOAuthToken"}
        /\ ev.issued > 0
        /\ isPolling
        /\ Len(inflight) = 2
        /\ inflight[1] # inflight[2]
        /\ ev'.op = "pollReject"
        /\ IsAuthenticationError(ev'.err)
        /\ inflight' = <<inflight[2]>>)
       => (isPolling' /\ timeoutId' = timeoutId /\ timers' = timers /\ timers' # {})]_vars

\* the notifications the provider can come to hold
CreatedRecords ==
    {[id |-> i, createdAt |-> t] : i \in 1..(MaxRecords * (MaxTime - 1)), t \in 2..MaxTime}

(* C36 - No record is lost by the watermark: if the service keeps polling  *)
(* and every fetch succeeds, every notification that the provider creates  *)
(* after the initial watermark is eventually returned by some getUpdates() *)
(* call and dispatched (and so is in SeenSet), a record created while a    *)
(* fetch is in flight included.                                            *)
C36_NoRecordLost ==
    \A r \in CreatedRecords :
        (r \in remote.nodes) ~> SetHas(lastKnownUpdates, ToUpdate(r).id)

(* C37 - Credential expiry does not end the session: when                *)
(* isAuthenticated() has become false while polling, without a settings    *)
(* change that a handler listens to (the OAuth token expired), a timer     *)
(* firing re-arms the timer, issues no fetch and keeps isPolling true; and *)
(* once isAuthenticated() is true again the next timer firing fetches,     *)
(* without any start() or restart() call.                                  *)
C37_ExpiryKeepsSession ==
    [][/\ (ev'.op = "timer" /\ isPolling) =>
            /\ isPolling'
            /\ Len(ev'.armed) = 1
            /\ Cardinality(timers') = 1
            /\ ev'.removed = <<>>
            /\ ev'.issued = (IF IsAuthenticated(settings, now) THEN 1 ELSE 0)
            /\ Len(inflight') = Len(inflight) + ev'.issued
       /\ ev'.op \in {"tick", "writeTokenExpiresAt"} =>
            UNCHANGED <<isPolling, timeoutId, timers, inflight>>
      ]_vars

\* the token has expired: the firing issued nothing and armed the next timer
C37_Witness ==
    /\ ev.op = "timer"
    /\ settings.oauthToken # ""
    /\ settings.tokenExpiresAt # NULL
    /\ now >= settings.tokenExpiresAt
    /\ ev.issued = 0
    /\ Len(ev.armed) = 1
    /\ isPolling
    /\ Cardinality(timers) = 1

(* C38 - Removing the active credential stops polling: after a settings   *)
(* change that leaves isAuthenticated() false (api-token cleared while     *)
(* auth-method is 'token', or oauth-token cleared / logout() while         *)
(* auth-method is OAuth) and all resulting change handlers have run,       *)
(* isPolling is false and no timer is pending.                             *)
C38_CredentialRemoved ==
    [][(/\ ev'.op \in {"writeApiToken", "writeOAuthToken", "logout"}
        /\ ~IsAuthenticated(settings', now')) =>
            /\ ~isPolling'
            /\ timeoutId' = NULL
            /\ timers' = {}
            /\ ev'.issued = 0
            /\ ev'.armed = <<>>
      ]_vars

\* the API token was cleared on a polling service: its timer was removed
C38_Witness ==
    /\ ev.op = "writeApiToken"
    /\ settings.authMethod = "token"
    /\ settings.apiToken = ""
    /\ ev.removed # <<>>
    /\ ~isPolling
    /\ timeoutId = NULL
    /\ timers = {}

(* C39 - Obtaining a credential starts polling: after a successful OAuth  *)
(* token exchange or refresh has stored an unexpired token (oauth-token    *)
(* written, then token-expires-at written) and all resulting change        *)
(* handlers have run, the polling service is polling (isPolling true, one  *)
(* timer pending), including when the previously stored token-expires-at   *)
(* was empty or already in the past.                                       *)
C39_CredentialObtained ==
    [][(/\ ev.op = "writeOAuthToken"
        /\ settings.authMethod = "oauth"
        /\ settings.oauthToken # ""
        /\ ev'.op = "writeTokenExpiresAt"
        /\ IsAuthenticated(settings', now')) =>
            (isPolling' /\ timeoutId' # NULL /\ Cardinality(timers') = 1)
      ]_vars

====
